---- MODULE Spec2Model ----
(***************************************************************************)
(* Two components of the batch system, each as a state machine:            *)
(*   - the priority channel of tikv_util::mpsc::priority_queue             *)
(*     (ChanSpec): SkipMap queue, sequencer, sender / receiver counts,     *)
(*     the disconnected flag under its mutex and the condition variable;   *)
(*   - BasicMailbox of batch-system (Spec): resource accounting, the       *)
(*     sender endpoint, and the FsmState hand-off of the Fsm between the   *)
(*     mailbox and the pollers.                                            *)
(* Every atomic access of the source (load, fetch_add, swap, map insert,   *)
(* pop_front, lock-protected section, condvar notify) is one step.         *)
(***************************************************************************)
EXTENDS Integers, Sequences, FiniteSets, Bags, TLC

(* ---------------------------------------------------------------- bounds *)
NumSenders == 2
NumReceivers == 2
MaxSends == 2
MaxPri == 1
NumProducers == 2
NumPollers == 2
MaxMsgs == 2
MailboxCap == 1

SenderThreads == 1..NumSenders
ReceiverThreads == 1..NumReceivers
Priorities == 0..MaxPri
Producers == 1..NumProducers
Pollers == 1..NumPollers

VARIABLES
    (* priority channel: PriorityQueue<T> *)
    queue,          \* SkipMap<MapKey, Cell<T>>: set of [key, cell] entries
    disconnected,   \* Mutex<bool>
    available,      \* Condvar: the receivers parked in wait()
    sequencer,      \* AtomicU64
    senders,        \* AtomicUsize
    receivers,      \* AtomicUsize
    (* channel threads *)
    hasTx,          \* sender thread -> "none", "held" or "gone" (dropped)
    hasRx,          \* receiver thread -> "none", "held" or "gone" (dropped)
    spc,            \* sender thread -> position inside send / drop
    sarg,           \* sender thread -> arguments and locals of the call
    sres,           \* sender thread -> result of its last send / try_send
    rpc,            \* receiver thread -> position inside try_recv / recv
    rop,            \* receiver thread -> the call in progress
    rres,           \* receiver thread -> result of its last call
    (* channel history *)
    nextVal,        \* number of sends started (payloads are 1, 2, ...)
    sendLog,        \* <<[val, pri, seq]>> in insertion order
    recvLog,        \* values in the order pop_front returned them
    overlap,        \* some send overlapped another send or a receive
    recvStarted,    \* some receive has started
    (* mailbox: BasicMailbox<Owner>, its FsmState and its channel *)
    status,         \* FsmState status: "Idle", "Scheduled" or "Closed"
    slot,           \* FsmState data: number of Fsm boxes in the slot (0 or 1)
    schedQ,         \* Fsm boxes handed to the scheduler, not yet on a poller
    dropped,        \* Fsm boxes dropped so far
    senderClosed,   \* close_sender() has run on the sender endpoint
    msgs,           \* the messages pending in the mailbox's channel
    charged,        \* resource controller: bag of the consume(group, bytes) calls
    lastGroup,      \* producer's mailbox handle -> last_msg_group
    ppc,            \* producer -> position inside force_send / try_send
    parg,           \* producer -> the message, the kind of the call, and the
                    \*             order in which consume drained the groups
    pres,           \* producer -> result of its last send
    wpc,            \* poller -> "idle", "run" (it holds the Fsm), "recheck", ...
    cpc,            \* the closing thread's position inside close()
    (* mailbox history *)
    nMsgs,          \* sends started
    accepted,       \* bag of the messages the sender endpoint has enqueued
    epochSched,     \* hand-offs to the scheduler since the Fsm was last Idle
    epochTaken      \* direct take_fsm successes since the Fsm was last Idle

chanVars == <<queue, disconnected, available, sequencer, senders, receivers,
              hasTx, hasRx, spc, sarg, sres, rpc, rop, rres,
              nextVal, sendLog, recvLog, overlap, recvStarted>>

mboxVars == <<status, slot, schedQ, dropped, senderClosed, msgs, charged,
              lastGroup, ppc, parg, pres, wpc, cpc, nMsgs, accepted,
              epochSched, epochTaken>>

vars == <<chanVars, mboxVars>>

(* ------------------------------------------------------------ Cell<T>   *)
NullPtr == 0

\* Cell::new: the pointer holds the boxed value (payloads are >= 1).
CellNew(value) == [ptr |-> value]

\* A take that reads the pointer and leaves it in place.
CellTakeNoSwap(cell) == <<cell.ptr, cell>>

\* Cell::take: swap the pointer with null; Some(value) unless it was null.
\* Returns the pair <<result, cell after the swap>>, result 0 standing for None.
CellTake(cell) == <<cell.ptr, [ptr |-> NullPtr]>>

(* ------------------------------------------------------------ MapKey    *)
MapKey(pri, seq) == [priority |-> pri, sequence |-> seq]

\* A comparison that forgets the priority.
KeyLessBySequence(a, b) == a.sequence < b.sequence

\* Ord for MapKey: priority first, then sequence.
KeyLess(a, b) ==
    IF a.priority = b.priority
    THEN a.sequence < b.sequence
    ELSE a.priority < b.priority

\* SkipMap::insert: an entry with an equal key is replaced.
MapInsert(q, key, cell) ==
    {e \in q : e.key # key} \cup {[key |-> key, cell |-> cell]}

\* The entry with the greatest key.
FrontLargest(q) == CHOOSE e \in q : \A f \in q : f = e \/ KeyLess(f.key, e.key)

\* SkipMap::pop_front: the entry with the least key.
Front(q) == CHOOSE e \in q : \A f \in q : f = e \/ KeyLess(e.key, f.key)

(* ------------------------------------------------------------ results   *)
\* A result is a tag and the payload it carries (0: none). Ok(()) of a send
\* carries nothing; Ok(v) of a receive carries v.
NoRes == [tag |-> "none", msg |-> 0]
Res(tag, msg) == [tag |-> tag, msg |-> msg]
NoArg == [val |-> 0, pri |-> 0, kind |-> "send", seq |-> 0]

SendInProgress(s) == spc[s] \in {"key", "insert", "notify"}
RecvInProgress(r) == rpc[r] # "idle"

(* ------------------------------------------------------------ Init      *)
\* unbounded(): one Sender and one Receiver handle, counts 1 / 1, empty map.
ChanInit ==
    /\ queue = {}
    /\ disconnected = FALSE
    /\ available = {}
    /\ sequencer = 0
    /\ senders = 1
    /\ receivers = 1
    /\ hasTx = [s \in SenderThreads |-> IF s = 1 THEN "held" ELSE "none"]
    /\ hasRx = [r \in ReceiverThreads |-> IF r = 1 THEN "held" ELSE "none"]
    /\ spc = [s \in SenderThreads |-> "idle"]
    /\ sarg = [s \in SenderThreads |-> NoArg]
    /\ sres = [s \in SenderThreads |-> NoRes]
    /\ rpc = [r \in ReceiverThreads |-> "idle"]
    /\ rop = [r \in ReceiverThreads |-> "recv"]
    /\ rres = [r \in ReceiverThreads |-> NoRes]
    /\ nextVal = 0
    /\ sendLog = <<>>
    /\ recvLog = <<>>
    /\ overlap = FALSE
    /\ recvStarted = FALSE

(* ------------------------------------------------------------ Sender    *)
\* Condvar::notify_one: wakes one parked receiver, which re-acquires the
\* mutex, drops the guard at the end of the match arm and loops to try_recv.
\* With nobody parked the notification is lost.
NotifyOne ==
    IF available = {}
    THEN UNCHANGED <<available, rpc>>
    ELSE \E r \in available :
            /\ available' = available \ {r}
            /\ rpc' = [rpc EXCEPT ![r] = "pop"]

\* Condvar::notify_all.
NotifyAll ==
    /\ available' = {}
    /\ rpc' = [r \in ReceiverThreads |-> IF r \in available THEN "pop" ELSE rpc[r]]

\* The error of a send with no receiver: SendError(msg), which try_send maps
\* to TrySendError::Disconnected(msg).
SendFailure(kind, msg) ==
    IF kind = "send" THEN Res("SendError", msg) ELSE Res("Disconnected", msg)

\* A check that loads the wrong counter.
ReceiverCheckSenders == senders # 0

\* send: if self.inner.receivers.load(Acquire) == 0 { return Err(SendError(msg)) }
\* TRUE when the send goes on to the insertion.
ReceiverCheck == receivers # 0

\* Sender::send(msg, pri) (kind "send") or Sender::try_send(msg, pri) (kind
\* "try_send", which calls send and maps the error), up to the load of the
\* receiver count, the first access to shared state.
SendCall(s) ==
    /\ hasTx[s] = "held" /\ spc[s] = "idle"
    /\ nextVal < MaxSends
    /\ nextVal' = nextVal + 1
    /\ \E pri \in Priorities, kind \in {"send", "try_send"} :
          IF ReceiverCheck
          THEN /\ sarg' = [sarg EXCEPT ![s] = [val |-> nextVal + 1, pri |-> pri,
                                               kind |-> kind, seq |-> 0]]
               /\ sres' = [sres EXCEPT ![s] = NoRes]
               /\ spc' = [spc EXCEPT ![s] = "key"]
               /\ overlap' = (overlap \/ recvStarted
                              \/ \E t \in SenderThreads \ {s} : SendInProgress(t))
          ELSE /\ sarg' = [sarg EXCEPT ![s] = [val |-> nextVal + 1, pri |-> pri,
                                               kind |-> kind, seq |-> 0]]
               /\ sres' = [sres EXCEPT ![s] = SendFailure(kind, nextVal + 1)]
               /\ UNCHANGED <<spc, overlap>>
    /\ UNCHANGED <<queue, disconnected, available, sequencer, senders, receivers,
                   hasTx, hasRx, rpc, rop, rres, sendLog, recvLog, recvStarted>>

\* A get_map_key that loads the sequencer and does not advance it.
GetMapKeyNoIncrement(s) ==
    /\ spc[s] = "key"
    /\ sarg' = [sarg EXCEPT ![s].seq = sequencer]
    /\ spc' = [spc EXCEPT ![s] = "insert"]
    /\ UNCHANGED <<queue, disconnected, available, sequencer, senders, receivers,
                   hasTx, hasRx, sres, rpc, rop, rres, nextVal, sendLog, recvLog,
                   overlap, recvStarted>>

\* get_map_key: sequence = sequencer.fetch_add(1, Relaxed).
GetMapKey(s) ==
    /\ spc[s] = "key"
    /\ sarg' = [sarg EXCEPT ![s].seq = sequencer]
    /\ sequencer' = sequencer + 1
    /\ spc' = [spc EXCEPT ![s] = "insert"]
    /\ UNCHANGED <<queue, disconnected, available, senders, receivers,
                   hasTx, hasRx, sres, rpc, rop, rres, nextVal, sendLog, recvLog,
                   overlap, recvStarted>>

\* queue.insert(key, Cell::new(msg))
SendInsert(s) ==
    /\ spc[s] = "insert"
    /\ queue' = MapInsert(queue, MapKey(sarg[s].pri, sarg[s].seq),
                          CellNew(sarg[s].val))
    /\ sendLog' = Append(sendLog, [val |-> sarg[s].val, pri |-> sarg[s].pri,
                                    seq |-> sarg[s].seq])
    /\ spc' = [spc EXCEPT ![s] = "notify"]
    /\ UNCHANGED <<disconnected, available, sequencer, senders, receivers,
                   hasTx, hasRx, sarg, sres, rpc, rop, rres, nextVal, recvLog,
                   overlap, recvStarted>>

\* available.notify_one(); Ok(())
SendNotify(s) ==
    /\ spc[s] = "notify"
    /\ NotifyOne
    /\ sres' = [sres EXCEPT ![s] = Res("Ok", 0)]
    /\ spc' = [spc EXCEPT ![s] = "idle"]
    /\ sarg' = [sarg EXCEPT ![s] = NoArg]
    /\ UNCHANGED <<queue, disconnected, sequencer, senders, receivers,
                   hasTx, hasRx, rop, rres, nextVal, sendLog, recvLog,
                   overlap, recvStarted>>

\* Clone for Sender: senders.fetch_add(1); the clone goes to a thread
\* that has not had a handle yet.
SenderClone(s, t) ==
    /\ hasTx[s] = "held" /\ spc[s] = "idle"
    /\ hasTx[t] = "none"
    /\ senders' = senders + 1
    /\ hasTx' = [hasTx EXCEPT ![t] = "held"]
    /\ UNCHANGED <<queue, disconnected, available, sequencer, receivers,
                   hasRx, spc, sarg, sres, rpc, rop, rres, nextVal, sendLog,
                   recvLog, overlap, recvStarted>>

\* Drop for Sender: old = senders.fetch_sub(1); if old <= 1 { ... }
SenderDrop(s) ==
    /\ hasTx[s] = "held" /\ spc[s] = "idle"
    /\ senders' = senders - 1
    /\ hasTx' = [hasTx EXCEPT ![s] = "gone"]
    /\ spc' = [spc EXCEPT ![s] = IF senders <= 1 THEN "dflag" ELSE "idle"]
    /\ UNCHANGED <<queue, disconnected, available, sequencer, receivers,
                   hasRx, sarg, sres, rpc, rop, rres, nextVal, sendLog,
                   recvLog, overlap, recvStarted>>

\* *self.inner.disconnected.lock() = true  (lock, store, unlock)
SenderDropFlag(s) ==
    /\ spc[s] = "dflag"
    /\ disconnected' = TRUE
    /\ spc' = [spc EXCEPT ![s] = "dnotify"]
    /\ UNCHANGED <<queue, available, sequencer, senders, receivers,
                   hasTx, hasRx, sarg, sres, rpc, rop, rres, nextVal, sendLog,
                   recvLog, overlap, recvStarted>>

\* A drop that sets the flag and wakes nobody.
SenderDropNotifyForgotten(s) ==
    /\ spc[s] = "dnotify"
    /\ spc' = [spc EXCEPT ![s] = "idle"]
    /\ UNCHANGED <<queue, disconnected, available, sequencer, senders, receivers,
                   hasTx, hasRx, sarg, sres, rpc, rop, rres, nextVal, sendLog,
                   recvLog, overlap, recvStarted>>

\* self.inner.available.notify_all()
SenderDropNotify(s) ==
    /\ spc[s] = "dnotify"
    /\ NotifyAll
    /\ spc' = [spc EXCEPT ![s] = "idle"]
    /\ UNCHANGED <<queue, disconnected, sequencer, senders, receivers,
                   hasTx, hasRx, sarg, sres, rop, rres, nextVal, sendLog,
                   recvLog, overlap, recvStarted>>

(* ------------------------------------------------------------ Receiver  *)
\* try_recv: match self.inner.queue.pop_front() {
\*     Some(entry) => Ok(entry.value().take().unwrap()), None ... }
\* The entry leaves the map atomically; its cell is then emptied by take().
\* A null cell makes unwrap() panic (position "panic").
PopFront(r) ==
    IF queue # {}
    THEN LET entry == Front(queue)
             taken == CellTake(entry.cell)
         IN  /\ queue' = queue \ {entry}
             /\ rop' = [rop EXCEPT ![r] = "recv"]
             /\ IF taken[1] # NullPtr
                THEN /\ rres' = [rres EXCEPT ![r] = Res("Ok", taken[1])]
                     /\ recvLog' = Append(recvLog, taken[1])
                     /\ rpc' = [rpc EXCEPT ![r] = "idle"]
                ELSE /\ rres' = [rres EXCEPT ![r] = NoRes]
                     /\ rpc' = [rpc EXCEPT ![r] = "panic"]
                     /\ UNCHANGED recvLog
    ELSE /\ rpc' = [rpc EXCEPT ![r] = "senders"]
         /\ rres' = [rres EXCEPT ![r] = NoRes]
         /\ UNCHANGED <<queue, recvLog>>

\* Receiver::try_recv or Receiver::recv, up to pop_front, the first access
\* to shared state.
RecvCall(r) ==
    /\ hasRx[r] = "held" /\ rpc[r] = "idle"
    /\ \E op \in {"try_recv", "recv"} :
          /\ queue = {} => rop' = [rop EXCEPT ![r] = op]
          /\ PopFront(r)
    /\ recvStarted' = TRUE
    /\ overlap' = (overlap \/ \E s \in SenderThreads : SendInProgress(s))
    /\ UNCHANGED <<disconnected, available, sequencer, senders, receivers,
                   hasTx, hasRx, spc, sarg, sres, nextVal, sendLog>>

\* recv: the next turn of the loop, after the wait returned.
RecvRetry(r) ==
    /\ rpc[r] = "pop"
    /\ queue = {} => UNCHANGED rop
    /\ PopFront(r)
    /\ UNCHANGED <<disconnected, available, sequencer, senders, receivers,
                   hasTx, hasRx, spc, sarg, sres, nextVal, sendLog,
                   overlap, recvStarted>>

\* try_recv: None if self.inner.senders.load(SeqCst) == 0 => Disconnected,
\*           None => Empty.
\* recv: Disconnected => return Err(RecvError); Empty => go on to the lock.
TryRecvSenders(r) ==
    /\ rpc[r] = "senders"
    /\ IF senders = 0
       THEN /\ rres' = [rres EXCEPT ![r] =
                   IF rop[r] = "recv" THEN Res("RecvError", 0)
                                      ELSE Res("Disconnected", 0)]
            /\ rpc' = [rpc EXCEPT ![r] = "idle"]
            /\ rop' = [rop EXCEPT ![r] = "recv"]
       ELSE IF rop[r] = "try_recv"
       THEN /\ rres' = [rres EXCEPT ![r] = Res("Empty", 0)]
            /\ rpc' = [rpc EXCEPT ![r] = "idle"]
            /\ rop' = [rop EXCEPT ![r] = "recv"]
       ELSE /\ rpc' = [rpc EXCEPT ![r] = "lock"]
            /\ UNCHANGED <<rres, rop>>
    /\ UNCHANGED <<queue, disconnected, available, sequencer, senders, receivers,
                   hasTx, hasRx, spc, sarg, sres, nextVal, sendLog, recvLog,
                   overlap, recvStarted>>

\* recv: let mut disconnected = self.inner.disconnected.lock();
\*       if *disconnected { return Err(RecvError); }
\*       self.inner.available.wait(&mut disconnected);
\* The section runs under the mutex, so it is atomic with respect to the
\* store of the flag; wait() parks the thread and releases the mutex at once.
RecvLockWait(r) ==
    /\ rpc[r] = "lock"
    /\ IF disconnected
       THEN /\ rres' = [rres EXCEPT ![r] = Res("RecvError", 0)]
            /\ rpc' = [rpc EXCEPT ![r] = "idle"]
            /\ UNCHANGED available
       ELSE /\ available' = available \cup {r}
            /\ rpc' = [rpc EXCEPT ![r] = "wait"]
            /\ UNCHANGED rres
    /\ UNCHANGED <<queue, disconnected, sequencer, senders, receivers,
                   hasTx, hasRx, spc, sarg, sres, rop, nextVal, sendLog, recvLog,
                   overlap, recvStarted>>

\* Clone for Receiver: receivers.fetch_add(1).
ReceiverClone(r, t) ==
    /\ hasRx[r] = "held" /\ rpc[r] = "idle"
    /\ hasRx[t] = "none"
    /\ receivers' = receivers + 1
    /\ hasRx' = [hasRx EXCEPT ![t] = "held"]
    /\ UNCHANGED <<queue, disconnected, available, sequencer, senders,
                   hasTx, spc, sarg, sres, rpc, rop, rres, nextVal, sendLog,
                   recvLog, overlap, recvStarted>>

\* Drop for Receiver: receivers.fetch_sub(1).
ReceiverDrop(r) ==
    /\ hasRx[r] = "held" /\ rpc[r] = "idle"
    /\ receivers' = receivers - 1
    /\ hasRx' = [hasRx EXCEPT ![r] = "gone"]
    /\ UNCHANGED <<queue, disconnected, available, sequencer, senders,
                   hasTx, spc, sarg, sres, rpc, rop, rres, nextVal, sendLog,
                   recvLog, overlap, recvStarted>>

(* ------------------------------------------------------------ messages  *)
\* Owner::Message with ResourceMetered::get_resource_consumptions: a message
\* declares no consumption ("plain"), or bytes per resource group: different
\* amounts ("mixed"), equal amounts ("tie"), or 0 bytes for every group ("zero").
Groups == {"gA", "gB"}
Messages == {"plain", "mixed", "tie", "zero"}
NoMsg == "none"
NoSend == [msg |-> NoMsg, kind |-> "force_send", order |-> <<>>]

HasConsumptions(m) == m # "plain"

Consumptions(m) ==
    CASE m = "mixed" -> [g \in Groups |-> IF g = "gA" THEN 10 ELSE 30]
      [] m = "tie" -> [g \in Groups |-> 5]
      [] OTHER -> [g \in Groups |-> 0]

\* The orders in which HashMap::drain may yield the groups.
DrainOrders ==
    {o \in [1..Cardinality(Groups) -> Groups] :
        \A i, j \in DOMAIN o : i # j => o[i] # o[j]}

\* The drain orders of a message: none to drain when it declares nothing.
DrainOrdersOf(m) == IF HasConsumptions(m) THEN DrainOrders ELSE {<<>>}

\* A loop that lets a later group of equal amount take over.
RECURSIVE DominantLastSeen(_, _, _)
DominantLastSeen(m, order, i) ==
    IF i = 0 THEN <<"default", 0>>
    ELSE LET prev == DominantLastSeen(m, order, i - 1)
             write_bytes == Consumptions(m)[order[i]]
         IN  IF write_bytes >= prev[2] THEN <<order[i], write_bytes>> ELSE prev

\* consume, the loop: after the first i groups of the order, the pair
\* <<dominant_group, max_write_bytes>>.
RECURSIVE Dominant(_, _, _)
Dominant(m, order, i) ==
    IF i = 0 THEN <<"default", 0>>
    ELSE LET prev == Dominant(m, order, i - 1)
             write_bytes == Consumptions(m)[order[i]]
         IN  IF write_bytes > prev[2] THEN <<order[i], write_bytes>> ELSE prev

\* consume, the loop: the calls resource_ctl.consume(&group_name,
\* ResourceType::Bytes(write_bytes)), one per group drained.
ConsumeCalls(m, order) ==
    SetToBag({<<order[i], Consumptions(m)[order[i]]>> : i \in DOMAIN order})

\* BasicMailbox::consume: every declared group is charged to the resource
\* controller, and last_msg_group of this handle becomes the dominant group.
Consume(p, m, order) ==
    /\ charged' = charged (+) ConsumeCalls(m, order)
    /\ lastGroup' = [lastGroup EXCEPT ![p] = Dominant(m, order, Len(order))[1]]

(* ------------------------------------------------------------ MboxInit  *)
\* BasicMailbox::new: the Fsm sits in the slot of a fresh FsmState (Idle),
\* last_msg_group is "default", the channel is empty and connected.
MboxInit ==
    /\ status = "Idle"
    /\ slot = 1
    /\ schedQ = 0
    /\ dropped = 0
    /\ senderClosed = FALSE
    /\ msgs = <<>>
    /\ charged = EmptyBag
    /\ lastGroup = [p \in Producers |-> "default"]
    /\ ppc = [p \in Producers |-> "idle"]
    /\ parg = [p \in Producers |-> NoSend]
    /\ pres = [p \in Producers |-> NoRes]
    /\ wpc = [w \in Pollers |-> "idle"]
    /\ cpc = "idle"
    /\ nMsgs = 0
    /\ accepted = EmptyBag
    /\ epochSched = 0
    /\ epochTaken = 0

(* ------------------------------------------------------------ sender    *)
\* mpsc::LooseBoundedSender, the mailbox's sender endpoint: the tag of the
\* result of force_send / try_send in the current state. force_send ignores
\* the capacity and fails only when the channel is torn down; try_send fails
\* with Full over capacity and with Disconnected when torn down.
SenderOutcome(kind) ==
    IF kind = "try_send" /\ Len(msgs) >= MailboxCap THEN "Full"
    ELSE IF senderClosed
         THEN (IF kind = "force_send" THEN "SendError" ELSE "Disconnected")
         ELSE "Ok"

(* ------------------------------------------------------------ FsmState  *)
\* FsmState::take_fsm: compare-and-swap Idle -> Scheduled; on success the Fsm
\* leaves the slot. TakeFsmGot is the number of boxes the caller receives.
TakeFsmGot == IF status = "Idle" THEN slot ELSE 0

TakeFsm ==
    IF status = "Idle"
    THEN /\ status' = "Scheduled"
         /\ slot' = 0
    ELSE UNCHANGED <<status, slot>>

\* FsmState::notify: take_fsm, and on success scheduler.schedule(fsm); the
\* hand-off is one atomic transition. A no-op when Scheduled or Closed.
StateNotify ==
    /\ TakeFsm
    /\ schedQ' = schedQ + TakeFsmGot
    /\ epochSched' = epochSched + TakeFsmGot

\* FsmState::release: the Fsm goes back into the slot and the status back to
\* Idle; when the mailbox was closed meanwhile the Fsm is dropped instead.
\* "Idle" here would mean the caller did not hold the Fsm ("invalid").
StateReleaseOutcome ==
    CASE status = "Scheduled" -> "idle"
      [] status = "Closed" -> "dropped"
      [] OTHER -> "invalid"

StateRelease ==
    CASE status = "Scheduled" ->
            /\ status' = "Idle"
            /\ slot' = slot + 1
            /\ epochSched' = 0
            /\ epochTaken' = 0
            /\ UNCHANGED dropped
      [] status = "Closed" ->
            /\ dropped' = dropped + 1
            /\ UNCHANGED <<status, slot, epochSched, epochTaken>>
      [] OTHER ->
            UNCHANGED <<status, slot, dropped, epochSched, epochTaken>>

\* FsmState::clear: the status becomes Closed; an Fsm left in the slot (the
\* status was Idle) is dropped.
StateClear ==
    /\ status' = "Closed"
    /\ IF status = "Idle"
       THEN /\ slot' = 0
            /\ dropped' = dropped + slot
       ELSE UNCHANGED <<slot, dropped>>

(* ------------------------------------------------------------ mailbox   *)
\* BasicMailbox::force_send / try_send, first statement:
\*     self.consume(&msg, scheduler.resource_ctl());
MbSendCall(p) ==
    /\ ppc[p] = "idle"
    /\ nMsgs < MaxMsgs
    /\ nMsgs' = nMsgs + 1
    /\ \E m \in Messages, kind \in {"force_send", "try_send"} :
          \E order \in DrainOrdersOf(m) :
             /\ parg' = [parg EXCEPT ![p] = [msg |-> m, kind |-> kind,
                                             order |-> order]]
             /\ Consume(p, m, order)
    /\ pres' = [pres EXCEPT ![p] = NoRes]
    /\ ppc' = [ppc EXCEPT ![p] = "send"]
    /\ UNCHANGED <<status, slot, schedQ, dropped, senderClosed, msgs, wpc, cpc,
                   accepted, epochSched, epochTaken>>

\* A send statement whose error is reported although the message was queued.
MbEnqueueDespiteError(p) ==
    /\ ppc[p] = "send"
    /\ msgs' = Append(msgs, parg[p].msg)
    /\ accepted' = accepted (+) SetToBag({parg[p].msg})
    /\ LET tag == SenderOutcome(parg[p].kind)
       IN  IF tag = "Ok"
           THEN /\ ppc' = [ppc EXCEPT ![p] = "notify"]
                /\ UNCHANGED <<pres, parg>>
           ELSE /\ pres' = [pres EXCEPT ![p] = Res(tag, parg[p].msg)]
                /\ ppc' = [ppc EXCEPT ![p] = "idle"]
                /\ parg' = [parg EXCEPT ![p] = NoSend]
    /\ UNCHANGED <<status, slot, schedQ, dropped, senderClosed, charged, lastGroup,
                   wpc, cpc, nMsgs, epochSched, epochTaken>>

\* second statement: self.sender.force_send(msg)?  /  self.sender.try_send(msg)?
\* An error returns at once, carrying the message.
MbEnqueue(p) ==
    /\ ppc[p] = "send"
    /\ LET tag == SenderOutcome(parg[p].kind)
       IN  IF tag = "Ok"
           THEN /\ msgs' = Append(msgs, parg[p].msg)
                /\ accepted' = accepted (+) SetToBag({parg[p].msg})
                /\ ppc' = [ppc EXCEPT ![p] = "notify"]
                /\ UNCHANGED <<pres, parg>>
           ELSE /\ pres' = [pres EXCEPT ![p] = Res(tag, parg[p].msg)]
                /\ ppc' = [ppc EXCEPT ![p] = "idle"]
                /\ parg' = [parg EXCEPT ![p] = NoSend]
                /\ UNCHANGED <<msgs, accepted>>
    /\ UNCHANGED <<status, slot, schedQ, dropped, senderClosed, charged, lastGroup,
                   wpc, cpc, nMsgs, epochSched, epochTaken>>

\* A send that schedules the Fsm without asking the FsmState for it.
MbNotifyUnchecked(p) ==
    /\ ppc[p] = "notify"
    /\ schedQ' = schedQ + 1
    /\ epochSched' = epochSched + 1
    /\ status' = (IF status = "Idle" THEN "Scheduled" ELSE status)
    /\ slot' = 0
    /\ pres' = [pres EXCEPT ![p] = Res("Ok", NoMsg)]
    /\ ppc' = [ppc EXCEPT ![p] = "idle"]
    /\ parg' = [parg EXCEPT ![p] = NoSend]
    /\ UNCHANGED <<dropped, senderClosed, msgs, charged, lastGroup, wpc, cpc,
                   nMsgs, accepted, epochTaken>>

\* A send that returns Ok without notifying the FsmState.
MbNotifyForgotten(p) ==
    /\ ppc[p] = "notify"
    /\ pres' = [pres EXCEPT ![p] = Res("Ok", NoMsg)]
    /\ ppc' = [ppc EXCEPT ![p] = "idle"]
    /\ parg' = [parg EXCEPT ![p] = NoSend]
    /\ UNCHANGED <<status, slot, schedQ, epochSched, dropped, senderClosed, msgs,
                   charged, lastGroup, wpc, cpc, nMsgs, accepted, epochTaken>>

\* third statement: self.state.notify(scheduler, Cow::Borrowed(self)); Ok(())
MbNotify(p) ==
    /\ ppc[p] = "notify"
    /\ StateNotify
    /\ pres' = [pres EXCEPT ![p] = Res("Ok", NoMsg)]
    /\ ppc' = [ppc EXCEPT ![p] = "idle"]
    /\ parg' = [parg EXCEPT ![p] = NoSend]
    /\ UNCHANGED <<dropped, senderClosed, msgs, charged, lastGroup, wpc, cpc,
                   nMsgs, accepted, epochTaken>>

\* A take_fsm that hands out the Fsm whatever the status.
MbTakeFsmUnchecked(w) ==
    /\ wpc[w] = "idle"
    /\ status' = (IF status = "Idle" THEN "Scheduled" ELSE status)
    /\ slot' = 0
    /\ epochTaken' = epochTaken + 1
    /\ wpc' = [wpc EXCEPT ![w] = "run"]
    /\ UNCHANGED <<schedQ, dropped, senderClosed, msgs, charged, lastGroup,
                   ppc, parg, pres, cpc, nMsgs, accepted, epochSched>>

\* A take_fsm that hands out the Fsm and leaves it in the slot as well.
MbTakeFsmKeepsSlot(w) ==
    /\ wpc[w] = "idle"
    /\ status' = (IF status = "Idle" THEN "Scheduled" ELSE status)
    /\ slot' = slot
    /\ epochTaken' = epochTaken + TakeFsmGot
    /\ wpc' = [wpc EXCEPT ![w] = IF TakeFsmGot > 0 THEN "run" ELSE "idle"]
    /\ UNCHANGED <<schedQ, dropped, senderClosed, msgs, charged, lastGroup,
                   ppc, parg, pres, cpc, nMsgs, accepted, epochSched>>

\* BasicMailbox::take_fsm, called by an idle poller: self.state.take_fsm().
\* With Some(fsm) the poller runs the Fsm.
MbTakeFsm(w) ==
    /\ wpc[w] = "idle"
    /\ TakeFsm
    /\ epochTaken' = epochTaken + TakeFsmGot
    /\ wpc' = [wpc EXCEPT ![w] = IF TakeFsmGot > 0 THEN "run" ELSE "idle"]
    /\ UNCHANGED <<schedQ, dropped, senderClosed, msgs, charged, lastGroup,
                   ppc, parg, pres, cpc, nMsgs, accepted, epochSched>>

\* A release that puts the Fsm back into the slot of a closed mailbox.
MbReleaseKeepsFsm(w) ==
    /\ wpc[w] = "run"
    /\ IF status = "Closed"
       THEN /\ slot' = slot + 1
            /\ UNCHANGED <<status, dropped, epochSched, epochTaken>>
       ELSE StateRelease
    /\ wpc' = [wpc EXCEPT ![w] =
                  CASE StateReleaseOutcome = "idle" -> "recheck"
                    [] StateReleaseOutcome = "dropped" -> "idle"
                    [] OTHER -> "panic"]
    /\ UNCHANGED <<schedQ, senderClosed, msgs, charged, lastGroup,
                   ppc, parg, pres, cpc, nMsgs, accepted>>

\* A release that settles into Idle without looking at the backlog.
MbReleaseNoRecheck(w) ==
    /\ wpc[w] = "run"
    /\ StateRelease
    /\ wpc' = [wpc EXCEPT ![w] =
                  CASE StateReleaseOutcome = "idle" -> "idle"
                    [] StateReleaseOutcome = "dropped" -> "idle"
                    [] OTHER -> "panic"]
    /\ UNCHANGED <<schedQ, senderClosed, msgs, charged, lastGroup,
                   ppc, parg, pres, cpc, nMsgs, accepted>>

\* BasicMailbox::release, called by the poller that runs the Fsm:
\* self.state.release(fsm). The release path then looks at the backlog.
MbRelease(w) ==
    /\ wpc[w] = "run"
    /\ StateRelease
    /\ wpc' = [wpc EXCEPT ![w] =
                  CASE StateReleaseOutcome = "idle" -> "recheck"
                    [] StateReleaseOutcome = "dropped" -> "idle"
                    [] OTHER -> "panic"]
    /\ UNCHANGED <<schedQ, senderClosed, msgs, charged, lastGroup,
                   ppc, parg, pres, cpc, nMsgs, accepted>>

\* The release path re-validates pending work: BasicMailbox::is_empty.
MbRecheck(w) ==
    /\ wpc[w] = "recheck"
    /\ wpc' = [wpc EXCEPT ![w] = IF Len(msgs) > 0 THEN "renotify" ELSE "idle"]
    /\ UNCHANGED <<status, slot, schedQ, dropped, senderClosed, msgs, charged,
                   lastGroup, ppc, parg, pres, cpc, nMsgs, accepted, epochSched, epochTaken>>

\* ... and with messages pending re-schedules the Fsm unless a racing notify
\* has done so.
MbRenotify(w) ==
    /\ wpc[w] = "renotify"
    /\ StateNotify
    /\ wpc' = [wpc EXCEPT ![w] = "idle"]
    /\ UNCHANGED <<dropped, senderClosed, msgs, charged, lastGroup,
                   ppc, parg, pres, cpc, nMsgs, accepted, epochTaken>>

\* A close that leaves the sender endpoint open.
MbCloseSenderForgotten ==
    /\ cpc = "idle"
    /\ cpc' = "clear"
    /\ UNCHANGED <<senderClosed, status, slot, schedQ, dropped, msgs, charged,
                   lastGroup, ppc, parg, pres, wpc, nMsgs, accepted, epochSched, epochTaken>>

\* BasicMailbox::close, first statement: self.sender.close_sender();
MbCloseSender ==
    /\ cpc = "idle"
    /\ senderClosed' = TRUE
    /\ cpc' = "clear"
    /\ UNCHANGED <<status, slot, schedQ, dropped, msgs, charged, lastGroup,
                   ppc, parg, pres, wpc, nMsgs, accepted, epochSched, epochTaken>>

\* second statement: self.state.clear();
MbCloseClear ==
    /\ cpc = "clear"
    /\ StateClear
    /\ cpc' = "done"
    /\ UNCHANGED <<schedQ, senderClosed, msgs, charged, lastGroup,
                   ppc, parg, pres, wpc, nMsgs, accepted, epochSched, epochTaken>>

(* ------------------------------------------------------------ poller    *)
\* The scheduler's worker pool: an idle poller picks up a scheduled Fsm ...
PollerFetch(w) ==
    /\ wpc[w] = "idle"
    /\ schedQ > 0
    /\ schedQ' = schedQ - 1
    /\ wpc' = [wpc EXCEPT ![w] = "run"]
    /\ UNCHANGED <<status, slot, dropped, senderClosed, msgs, charged, lastGroup,
                   ppc, parg, pres, cpc, nMsgs, accepted, epochSched, epochTaken>>

\* ... and the Fsm it runs drains the mailbox's channel.
PollerRecv(w) ==
    /\ wpc[w] = "run"
    /\ msgs # <<>>
    /\ msgs' = Tail(msgs)
    /\ UNCHANGED <<status, slot, schedQ, dropped, senderClosed, charged, lastGroup,
                   ppc, parg, pres, wpc, cpc, nMsgs, accepted, epochSched, epochTaken>>

(* ------------------------------------------------------------ specs     *)
Init == ChanInit /\ MboxInit

ChanNext ==
    \/ \E s \in SenderThreads : SendCall(s) /\ UNCHANGED mboxVars
    \/ \E s \in SenderThreads : GetMapKey(s) /\ UNCHANGED mboxVars
    \/ \E s \in SenderThreads : SendInsert(s) /\ UNCHANGED mboxVars
    \/ \E s \in SenderThreads : SendNotify(s) /\ UNCHANGED mboxVars
    \/ \E s, t \in SenderThreads : SenderClone(s, t) /\ UNCHANGED mboxVars
    \/ \E s \in SenderThreads : SenderDrop(s) /\ UNCHANGED mboxVars
    \/ \E s \in SenderThreads : SenderDropFlag(s) /\ UNCHANGED mboxVars
    \/ \E s \in SenderThreads : SenderDropNotify(s) /\ UNCHANGED mboxVars
    \/ \E r \in ReceiverThreads : RecvCall(r) /\ UNCHANGED mboxVars
    \/ \E r \in ReceiverThreads : RecvRetry(r) /\ UNCHANGED mboxVars
    \/ \E r \in ReceiverThreads : TryRecvSenders(r) /\ UNCHANGED mboxVars
    \/ \E r \in ReceiverThreads : RecvLockWait(r) /\ UNCHANGED mboxVars
    \/ \E r, t \in ReceiverThreads : ReceiverClone(r, t) /\ UNCHANGED mboxVars
    \/ \E r \in ReceiverThreads : ReceiverDrop(r) /\ UNCHANGED mboxVars

ChanSpec == Init /\ [][ChanNext]_vars

\* A thread inside a drop or a receive goes on running: the dropping sender
\* sets the flag and notifies, a receiver that is not parked takes its next
\* step. Nothing makes a thread start a call.
ChanFairness ==
    /\ \A s \in SenderThreads : WF_vars(SenderDropFlag(s) /\ UNCHANGED mboxVars)
    /\ \A s \in SenderThreads : WF_vars(SenderDropNotify(s) /\ UNCHANGED mboxVars)
    /\ \A r \in ReceiverThreads : WF_vars(RecvRetry(r) /\ UNCHANGED mboxVars)
    /\ \A r \in ReceiverThreads : WF_vars(TryRecvSenders(r) /\ UNCHANGED mboxVars)
    /\ \A r \in ReceiverThreads : WF_vars(RecvLockWait(r) /\ UNCHANGED mboxVars)

ChanFairSpec == Init /\ [][ChanNext]_vars /\ ChanFairness

Next ==
    \/ \E p \in Producers : MbSendCall(p) /\ UNCHANGED chanVars
    \/ \E p \in Producers : MbEnqueue(p) /\ UNCHANGED chanVars
    \/ \E p \in Producers : MbNotify(p) /\ UNCHANGED chanVars
    \/ \E w \in Pollers : MbTakeFsm(w) /\ UNCHANGED chanVars
    \/ \E w \in Pollers : MbRelease(w) /\ UNCHANGED chanVars
    \/ \E w \in Pollers : MbRecheck(w) /\ UNCHANGED chanVars
    \/ \E w \in Pollers : MbRenotify(w) /\ UNCHANGED chanVars
    \/ MbCloseSender /\ UNCHANGED chanVars
    \/ MbCloseClear /\ UNCHANGED chanVars
    \/ \E w \in Pollers : PollerFetch(w) /\ UNCHANGED chanVars
    \/ \E w \in Pollers : PollerRecv(w) /\ UNCHANGED chanVars

Spec == Init /\ [][Next]_vars

\* Every thread that is inside a call goes on running: producers finish their
\* send, pollers finish the release path.
Fairness ==
    /\ \A p \in Producers : WF_vars(MbEnqueue(p) /\ UNCHANGED chanVars)
    /\ \A p \in Producers : WF_vars(MbNotify(p) /\ UNCHANGED chanVars)
    /\ \A w \in Pollers : WF_vars(MbRecheck(w) /\ UNCHANGED chanVars)
    /\ \A w \in Pollers : WF_vars(MbRenotify(w) /\ UNCHANGED chanVars)

FairSpec == Init /\ [][Next]_vars /\ Fairness

(* ------------------------------------------------------------ helpers   *)
RECURSIVE SeqToBag(_)
SeqToBag(seq) ==
    IF seq = <<>> THEN EmptyBag
    ELSE SetToBag({Head(seq)}) (+) SeqToBag(Tail(seq))

\* x put behind every element of the sorted sequence whose priority is not
\* greater, so that equal priorities keep their order.
RECURSIVE InsertByPri(_, _)
InsertByPri(sorted, x) ==
    IF sorted = <<>> THEN <<x>>
    ELSE IF Head(sorted).pri <= x.pri
         THEN <<Head(sorted)>> \o InsertByPri(Tail(sorted), x)
         ELSE <<x>> \o sorted

\* The sequence stably sorted by ascending priority.
RECURSIVE StableSort(_)
StableSort(seq) ==
    IF seq = <<>> THEN <<>>
    ELSE InsertByPri(StableSort(SubSeq(seq, 1, Len(seq) - 1)), seq[Len(seq)])

Vals(seq) == [i \in DOMAIN seq |-> seq[i].val]

IsPrefix(a, b) == Len(a) <= Len(b) /\ a = SubSeq(b, 1, Len(a))

SendersQuiet == \A s \in SenderThreads : spc[s] = "idle"

Running == {w \in Pollers : wpc[w] = "run"}

\* The parties that hold the Fsm: the slot, the scheduler's queue, the pollers.
FsmHolders == slot + schedQ + Cardinality(Running)

SendErrors == {"SendError", "Full", "Disconnected"}

(* ------------------------------------------------------------ claims    *)
\* C1: the Fsm is held by at most one party: the slot of the FsmState, the
\* scheduler, or one poller; never two pollers, never a poller and the slot.
C1_SingleHolder == FsmHolders <= 1

C1_Witness ==
    /\ \E w \in Pollers : wpc[w] = "run"
    /\ slot = 0 /\ schedQ = 0
    /\ \A p \in Producers : pres[p].tag = "Ok"
    /\ msgs # <<>>

\* C2: between the Fsm becoming Idle and its next release the Fsm is handed
\* over exactly once, however many notify calls there are: at most one
\* hand-off per period, exactly one while the status is Scheduled, none while
\* it is Idle.
C2_ExactlyOnce ==
    /\ epochSched + epochTaken <= 1
    /\ status = "Scheduled" => epochSched + epochTaken = 1
    /\ status = "Idle" => epochSched + epochTaken = 0

C2_Witness ==
    /\ status = "Scheduled"
    /\ epochSched = 1
    /\ Len(msgs) = 2
    /\ \A p \in Producers : pres[p].tag = "Ok"
    /\ \A w \in Pollers : wpc[w] = "idle"

\* C3: the mailbox never comes to rest with the status Idle, a message
\* pending and no notify or release in progress; and a pending message leads
\* to the Fsm being with the scheduler or a poller, unless the mailbox is
\* closed.
AtRest ==
    /\ status = "Idle"
    /\ msgs # <<>>
    /\ \A p \in Producers : ppc[p] # "notify"
    /\ \A w \in Pollers : wpc[w] \notin {"recheck", "renotify"}

C3_NoLostWakeup ==
    /\ [](~AtRest)
    /\ (msgs # <<>>) ~> (schedQ > 0 \/ Running # {} \/ cpc # "idle")

C3_Witness ==
    /\ status = "Idle"
    /\ msgs # <<>>
    /\ cpc = "idle"
    /\ \E w \in Pollers : wpc[w] = "renotify"
    /\ \A p \in Producers : ppc[p] = "idle"

\* C9: a send that returns an error returns the message of the call, comes
\* straight from the failed send statement (it never notified), and its
\* failure enqueues nothing and hands off nothing.
C9_FailedSend ==
    [][\A p \in Producers :
          (ppc[p] # "idle" /\ ppc'[p] = "idle" /\ pres'[p].tag # "Ok") =>
             /\ ppc[p] = "send"
             /\ pres'[p].tag \in SendErrors
             /\ pres'[p].msg = parg[p].msg
             /\ msgs' = msgs
             /\ schedQ' = schedQ /\ status' = status /\ slot' = slot]_vars

C9_Witness ==
    /\ \E p \in Producers : pres[p].tag = "Full" /\ pres[p].msg \in Messages
    /\ Len(msgs) = MailboxCap
    /\ status = "Scheduled"

\* What a step may do around close(): the close ends with the status Closed
\* and the slot empty, an Idle Fsm being dropped by it; after close() has
\* completed nothing is handed to the scheduler or taken from the slot, and
\* every send fails, returning its message: force_send with SendError,
\* try_send with one of trySendErrors.
CloseIsFinal(trySendErrors) ==
    /\ cpc' = "done" => status' = "Closed" /\ slot' = 0
    /\ (cpc = "clear" /\ cpc' = "done" /\ status = "Idle") => dropped' = dropped + 1
    /\ cpc = "done" =>
          /\ schedQ' <= schedQ
          /\ \A w \in Pollers :
                (wpc[w] = "idle" /\ wpc'[w] = "run") => schedQ' = schedQ - 1
          /\ \A p \in Producers :
                (ppc[p] = "send" /\ ppc'[p] # "send") =>
                   /\ ppc'[p] = "idle"
                   /\ msgs' = msgs
                   /\ pres'[p].msg = parg[p].msg
                   /\ pres'[p].tag \in (IF parg[p].kind = "force_send"
                                         THEN {"SendError"} ELSE trySendErrors)

\* C10 as stated: close() is final, and every later force_send / try_send
\* fails with a disconnected error.
C10_AsStated == [][CloseIsFinal({"Disconnected"})]_vars

\* C10 amended: close() is final, and every later force_send fails with
\* SendError, every later try_send with Full when the channel is over
\* capacity and with Disconnected otherwise.
C10_CloseIsFinal == [][CloseIsFinal({"Disconnected", "Full"})]_vars

C10_Witness ==
    /\ cpc = "done"
    /\ dropped = 1
    /\ Len(msgs) >= MailboxCap
    /\ \E p \in Producers : ppc[p] = "send" /\ parg[p].kind = "try_send"

\* C11: release returns the Fsm to the slot with the status Idle and calls
\* no scheduler; the release path then goes on to re-schedule exactly when
\* messages are pending, and its re-schedule hands the Fsm to the scheduler
\* exactly when no racing notify (or take) has done so since the release:
\* afterwards the Fsm has been handed over once, not zero times, not twice.
C11_ReleaseRecheck ==
    [][\A w \in Pollers :
          /\ (wpc[w] = "run" /\ wpc'[w] # "run" /\ status = "Scheduled") =>
                /\ status' = "Idle" /\ slot' = 1
                /\ schedQ' = schedQ
                /\ wpc'[w] = "recheck"
          /\ (wpc[w] = "recheck" /\ wpc'[w] # "recheck") =>
                /\ wpc'[w] = (IF msgs # <<>> THEN "renotify" ELSE "idle")
                /\ schedQ' = schedQ /\ status' = status /\ slot' = slot
          /\ (wpc[w] = "renotify" /\ wpc'[w] # "renotify") =>
                /\ wpc'[w] = "idle"
                /\ IF status = "Idle"
                   THEN status' = "Scheduled" /\ slot' = 0 /\ schedQ' = schedQ + 1
                   ELSE status' = status /\ slot' = slot /\ schedQ' = schedQ
                /\ status' = "Scheduled" => epochSched' + epochTaken' = 1
                /\ schedQ' + Cardinality({v \in Pollers : wpc'[v] = "run"}) <= 1]_vars

\* A release has found messages pending and is about to re-schedule, while
\* the notify of a concurrent send has already handed the Fsm over.
C11_Witness ==
    /\ \E w \in Pollers : wpc[w] = "renotify"
    /\ status = "Scheduled"
    /\ schedQ = 1
    /\ msgs # <<>>
    /\ \A p \in Producers : ppc[p] = "idle"

\* C15: with close() racing a running Fsm, the worker's release does not
\* panic, leaves the status Closed, hands nothing to the scheduler and puts
\* nothing into the slot: the Fsm is dropped by it, and dropped once. At every
\* moment the Fsm is in exactly one place or has been dropped once.
C15_ReleaseAfterClose ==
    [][/\ \A w \in Pollers :
             /\ wpc'[w] # "panic"
             /\ (wpc[w] = "run" /\ wpc'[w] # "run" /\ status = "Closed") =>
                   /\ wpc'[w] = "idle"
                   /\ status' = "Closed" /\ slot' = 0
                   /\ schedQ' = schedQ
                   /\ dropped' = dropped + 1
       /\ status = "Closed" => status' = "Closed" /\ slot' = 0 /\ schedQ' <= schedQ
       /\ dropped' + slot' + schedQ'
             + Cardinality({v \in Pollers : wpc'[v] = "run"}) = 1]_vars

\* The mailbox was closed while the Fsm was out, and the Fsm was then dropped
\* by the release of the worker that ran it.
C15_Witness ==
    /\ cpc = "done"
    /\ status = "Closed"
    /\ dropped = 1
    /\ epochSched + epochTaken = 1
    /\ schedQ = 0
    /\ \A w \in Pollers : wpc[w] = "idle"

\* C17: the Fsm is in the slot exactly when the status is Idle (the model's
\* clear() drops the Fsm in the same step, so Closed has no residual Fsm);
\* while Scheduled the slot is empty; take_fsm hands out the Fsm only when
\* the status was Idle, turning it to Scheduled and emptying the slot.
SlotMatchesStatus ==
    /\ slot \in {0, 1}
    /\ status = "Idle" => slot = 1
    /\ status = "Scheduled" => slot = 0
    /\ slot = 1 => status \in {"Idle", "Closed"}

C17_SlotInvariant ==
    /\ []SlotMatchesStatus
    /\ [][\A w \in Pollers :
             (wpc[w] = "idle" /\ wpc'[w] = "run" /\ schedQ' = schedQ) =>
                /\ status = "Idle" /\ slot = 1
                /\ status' = "Scheduled" /\ slot' = 0]_vars

\* A poller took the Fsm with take_fsm and runs it.
C17_Witness ==
    /\ status = "Scheduled"
    /\ slot = 0
    /\ epochTaken = 1
    /\ \E w \in Pollers : wpc[w] = "run"
    /\ \E p \in Producers : ppc[p] = "notify"

\* C4: recv returns RecvError and try_recv returns Disconnected only when no
\* item remains in the queue (once a receiver has been told the channel is
\* disconnected, the queue is empty).
C4_DisconnectedOnlyWhenDrained ==
    \A r \in ReceiverThreads :
        rres[r].tag \in {"RecvError", "Disconnected"} => queue = {}

\* C5: a receiver is never left parked on the wait condition while the queue
\* holds an item: whenever a receiver is parked and no send, no sender drop
\* and no other receive is in progress, the queue is empty.
C5_NeverParkedWithItem ==
    \A r \in ReceiverThreads :
        (/\ rpc[r] = "wait"
         /\ SendersQuiet
         /\ \A q \in ReceiverThreads : rpc[q] \in {"idle", "wait"})
        => queue = {}

\* C6: once every sender handle is dropped and every consumer's recv has
\* returned an error, the values received are exactly the values sent.
C6_Conservation ==
    (/\ senders = 0
     /\ SendersQuiet
     /\ \E r \in ReceiverThreads : hasRx[r] = "held"
     /\ \A r \in ReceiverThreads :
           hasRx[r] = "held" => rpc[r] = "idle" /\ rres[r].tag = "RecvError")
    => SeqToBag(recvLog) = SeqToBag(Vals(sendLog))

\* C7: when the sends all completed one after the other before the first
\* receive started, the values come out in the order of the sent sequence
\* stably sorted by ascending priority, and try_recv reports Empty only after
\* all of them.
C7_PriorityOrder ==
    ~overlap =>
        /\ IsPrefix(recvLog, Vals(StableSort(sendLog)))
        /\ (\E s \in SenderThreads : hasTx[s] = "held") =>
              \A r \in ReceiverThreads :
                 /\ rres[r].tag \notin {"Disconnected", "RecvError"}
                 /\ rres[r].tag = "Empty" => recvLog = Vals(StableSort(sendLog))

C7_Witness ==
    /\ ~overlap
    /\ Len(sendLog) = MaxSends
    /\ sendLog[1].pri > sendLog[2].pri
    /\ Len(recvLog) = MaxSends
    /\ \E r \in ReceiverThreads : rres[r].tag = "Empty"

\* C8: a send or try_send called when no receiver handle is left returns
\* SendError(msg), respectively TrySendError::Disconnected(msg), with the
\* payload of the call, and inserts nothing.
C8_SendAfterReceiversGone ==
    [][(receivers = 0 /\ nextVal' # nextVal) =>
          /\ queue' = queue
          /\ sequencer' = sequencer
          /\ spc' = spc
          /\ \E s \in SenderThreads :
                /\ sarg'[s].val = nextVal'
                /\ sres'[s] = Res(IF sarg'[s].kind = "send" THEN "SendError"
                                                            ELSE "Disconnected",
                                   nextVal')]_vars

C8_Witness ==
    /\ receivers = 0
    /\ \E s, t \in SenderThreads :
          /\ sres[s].tag = "SendError" /\ sres[s].msg = sarg[s].val
          /\ sres[t].tag = "Disconnected" /\ sres[t].msg = sarg[t].val

\* C12: once the last sender handle is dropped, a receiver that is inside
\* recv (parked, about to park, or entering) returns.
C12_DisconnectWakesReceivers ==
    \A r \in ReceiverThreads :
        (senders = 0 /\ rpc[r] # "idle") ~> (rpc[r] = "idle")

\* The last sender has set the flag and is about to notify; a receiver is
\* parked in recv.
C12_Witness ==
    /\ senders = 0
    /\ disconnected
    /\ \E s \in SenderThreads : spc[s] = "dnotify"
    /\ \E r \in ReceiverThreads : r \in available /\ rop[r] = "recv"

\* The record of a delivered value in the send log.
SentOf(v) == CHOOSE e \in {sendLog[i] : i \in DOMAIN sendLog} : e.val = v

\* C13: of two delivered messages of the same priority, the one with the
\* smaller sequence number was dequeued first.
C13_FifoWithinPriority ==
    \A i, j \in DOMAIN recvLog :
        (i < j /\ SentOf(recvLog[i]).pri = SentOf(recvLog[j]).pri)
        => SentOf(recvLog[i]).seq < SentOf(recvLog[j]).seq

\* C14: a receive that delivers a value removes one entry from the map, the
\* one whose (priority, sequence) key is below the key of every other entry
\* in the map at that moment, and delivers the value of that entry.
C14_SmallestKeyFirst ==
    [][recvLog' # recvLog =>
          \E e \in queue :
             /\ queue' = queue \ {e}
             /\ recvLog' = Append(recvLog, e.cell.ptr)
             /\ \A f \in queue \ {e} :
                   \/ e.key.priority < f.key.priority
                   \/ /\ e.key.priority = f.key.priority
                      /\ e.key.sequence < f.key.sequence]_vars

\* The item of priority 0 was inserted after the item of priority 1 and has
\* been delivered, the other one still being queued.
C14_Witness ==
    /\ Len(sendLog) = 2
    /\ sendLog[1].pri = 1 /\ sendLog[2].pri = 0
    /\ recvLog = <<sendLog[2].val>>
    /\ \E e \in queue : e.cell.ptr = sendLog[1].val

\* C18: an insertion into the queue happens only while a receiver handle is
\* live.
C18_NoInsertWithoutReceiver ==
    [][Cardinality(queue') > Cardinality(queue) => receivers > 0]_vars

QueueVals == {e.cell.ptr : e \in queue}
RecvVals == {recvLog[i] : i \in DOMAIN recvLog}

\* C19: every queued cell holds its value, a take yields it and a second
\* take on the emptied cell yields nothing; no try_recv runs into the failing
\* unwrap; every inserted value is either still queued or was delivered, and
\* delivered once.
C19_TakeOnce ==
    /\ \A r \in ReceiverThreads : rpc[r] # "panic"
    /\ \A e \in queue :
          /\ e.cell.ptr # NullPtr
          /\ CellTake(e.cell)[1] = e.cell.ptr
          /\ CellTake(CellTake(e.cell)[2])[1] = NullPtr
    /\ Cardinality(RecvVals) = Len(recvLog)
    /\ QueueVals \cap RecvVals = {}
    /\ QueueVals \cup RecvVals = {sendLog[i].val : i \in DOMAIN sendLog}

\* Two receivers ran try_recv / recv concurrently with the sends and each
\* got one of the two items.
C19_Witness ==
    /\ overlap
    /\ Len(recvLog) = 2
    /\ queue = {}
    /\ \A r \in ReceiverThreads : rres[r].tag = "Ok"
    /\ rres[1].msg # rres[2].msg

\* The consume calls a message declares: one per (group, bytes) pair.
DeclaredCalls(m) ==
    IF HasConsumptions(m)
    THEN SetToBag({<<g, Consumptions(m)[g]>> : g \in Groups})
    ELSE EmptyBag

\* The group last_msg_group is to name after a message whose groups were
\* iterated in the given order: the first one that has the largest amount,
\* "default" when nothing is declared or no amount is above 0.
ExpectedGroup(m, order) ==
    IF order = <<>> \/ \A i \in DOMAIN order : Consumptions(m)[order[i]] = 0
    THEN "default"
    ELSE order[CHOOSE i \in DOMAIN order :
                  /\ \A j \in DOMAIN order :
                        Consumptions(m)[order[j]] <= Consumptions(m)[order[i]]
                  /\ \A j \in DOMAIN order :
                        j < i => Consumptions(m)[order[j]] < Consumptions(m)[order[i]]]

\* C16: the first statement of a mailbox send adds to the resource
\* controller exactly one consume call per declared (group, bytes) pair, and
\* sets last_msg_group of the sending handle (and of no other handle) to the
\* first-seen group of largest amount, or to "default".
C16_Accounting ==
    [][\A p \in Producers :
          (ppc[p] = "idle" /\ ppc'[p] = "send") =>
             LET m == parg'[p].msg
                 order == parg'[p].order
             IN  /\ charged' = charged (+) DeclaredCalls(m)
                 /\ HasConsumptions(m) =>
                       {order[i] : i \in DOMAIN order} = Groups
                 /\ lastGroup'[p] = ExpectedGroup(m, order)
                 /\ \A q \in Producers \ {p} : lastGroup'[q] = lastGroup[q]]_vars

\* A handle whose last message was mixed sends a tie whose groups drain in
\* the order gB, gA: both are charged 5 and last_msg_group is gB, the earlier
\* mixed message being charged as well.
C16_Witness ==
    \E p \in Producers :
       /\ ppc[p] = "send"
       /\ parg[p].msg = "tie"
       /\ parg[p].order = <<"gB", "gA">>
       /\ lastGroup[p] = "gB"
       /\ CopiesIn(<<"gA", 5>>, charged) = 1
       /\ CopiesIn(<<"gB", 5>>, charged) = 1
       /\ CopiesIn(<<"gB", 30>>, charged) = 1

\* The number of consume calls for (group, bytes) that the enqueued messages
\* declare.
RECURSIVE CallsOwed(_, _)
CallsOwed(call, ms) ==
    IF ms = {} THEN 0
    ELSE LET m == CHOOSE x \in ms : TRUE
         IN  CopiesIn(m, accepted) * CopiesIn(call, DeclaredCalls(m))
             + CallsOwed(call, ms \ {m})

AllCalls == {<<g, Consumptions(m)[g]>> : g \in Groups, m \in Messages \ {"plain"}}

\* C20: with no send in progress, the resource controller has been charged
\* for the messages that were enqueued and for no others.
C20_FailedSendNotCharged ==
    (\A p \in Producers : ppc[p] = "idle") =>
        \A call \in AllCalls : CopiesIn(call, charged) = CallsOwed(call, Messages)

\* The sequence numbers that sends have obtained so far: those of the
\* inserted messages and those of the sends that are about to insert.
SeqsObtained ==
    {sendLog[i].seq : i \in DOMAIN sendLog}
        \cup {sarg[s].seq : s \in {x \in SenderThreads : spc[x] = "insert"}}

\* C21: a send that passed the receiver check obtains a sequence number
\* that no other send has obtained; its insertion finds no entry with its
\* key, keeps every queued entry and makes the queue one entry longer; no
\* two entries of the map have the same key.
C21_UniqueKeys ==
    [][\A s \in SenderThreads :
          /\ (spc[s] = "key" /\ spc'[s] = "insert") =>
                /\ sarg'[s].seq \notin SeqsObtained
                /\ sarg'[s].pri = sarg[s].pri /\ sarg'[s].val = sarg[s].val
          /\ (spc[s] = "insert" /\ spc'[s] = "notify") =>
                LET key == MapKey(sarg[s].pri, sarg[s].seq)
                IN  /\ \A e \in queue : e.key # key
                    /\ queue \subseteq queue'
                    /\ Cardinality(queue') = Cardinality(queue) + 1
                    /\ \E e \in queue' \ queue :
                          e.key = key /\ e.cell.ptr = sarg[s].val
                    /\ \A e, f \in queue' : e.key = f.key => e = f]_vars

\* Two sends of the same priority raced on two threads; both have inserted
\* and both items are queued, under different sequence numbers.
C21_Witness ==
    /\ overlap
    /\ \A s \in SenderThreads : spc[s] = "notify"
    /\ Cardinality(queue) = 2
    /\ \A e, f \in queue : e.key.priority = f.key.priority
    /\ \E e, f \in queue : e.key.sequence # f.key.sequence

====
